---- MODULE Spec2Model ----
(***************************************************************************)
(* A model of the hardware-wallet simulator: the DeviceSimulator session   *)
(* (services/device_simulator.py), driven by request coroutines that       *)
(* suspend at every `await asyncio.sleep`; the WebSocketManager            *)
(* (services/websocket_manager.py) with the /ws handler of main.py; and    *)
(* the FHEService computation stub (services/fhe_service.py).              *)
(*                                                                         *)
(* Python values are modelled as follows.  A pydantic model or a dict is a *)
(* record; `None` in a record-typed slot is the record None; an exception  *)
(* raised by a method is the response [exception |-> kind]; datetime       *)
(* values are abstracted to the single record Timestamp; uuid4() draws the *)
(* next value of the counter next_id (every id is fresh).                  *)
(***************************************************************************)
EXTENDS Integers, Sequences, FiniteSets, TLC

(***************************************************************************)
(* Bounds of the model                                                     *)
(***************************************************************************)
\* log entries a run of the session specifications may append
MaxAppends == 7
\* the same, for runs in which requests overlap
MaxAsyncAppends == 5
\* log entries a run of the log specification may append
MaxLogAppends == 150
\* messages (broadcasts and pongs) a run of the hub specification may stamp
MaxEvents == 2
\* computations a run of the computation specification may chain
MaxChain == 11

(***************************************************************************)
(* Program constants                                                       *)
(***************************************************************************)
max_pin_attempts == 3
LogCapacity == 100
default_pin == "1234"

None == [none |-> TRUE]
Timestamp == [utcnow |-> TRUE]

\* request coroutines that may be in flight
Requests == {"r1", "r2"}

\* inputs
DeviceInfos ==
  { [device_type |-> "ledger", name |-> "Ledger Nano S"],
    [device_type |-> "trezor", name |-> "Trezor Model T"] }
Pins == {"1234", "0000"}
Transactions ==
  { [to_address |-> "octra1abc", amount |-> "10.5"],
    [to_address |-> "octra1xyz", amount |-> "2.0"] }
DerivationPaths == {"m/44'/60'/0'/0/0"}
\* values of the limit parameter of GET /api/logs (50 when omitted)
Limits == {-1, 0, 1, 50, 100, 1000}
\* the websockets that may ever be opened
WebSockets == {"w1", "w2", "w3"}
Tokens == {"t0"}

VARIABLES
  state,                \* DeviceSimulator.state : DeviceState
  logs,                 \* DeviceSimulator.logs : List[LogEntry]
  pending_transaction,  \* DeviceSimulator.pending_transaction
  pin_attempts,         \* DeviceSimulator.pin_attempts
  next_id,              \* number of uuid4() ids drawn for log entries
  history,              \* every entry appended since the last logs.clear()
  pc,                   \* pc[r]: where request r is suspended
  frame,                \* frame[r]: the coroutine's arguments and locals
  resp,                 \* resp[r]: what the call returned or raised
  wrong_run,            \* wrong-PIN unlock calls completed in a row, counted
                        \* from a connected, locked session with pin_attempts 0
  locked_out,           \* an unlock raised DeviceLocked and no connect
                        \* has succeeded since
  active_connections,   \* WebSocketManager.active_connections : List[WebSocket]
  connection_info,      \* keys of WebSocketManager.connection_info
  sock,                 \* sock[ws]: the transport of websocket ws
  wpc,                  \* wpc[ws]: where the /ws handler of ws is suspended
  inbox,                \* inbox[ws]: the messages send_text delivered to ws
  failed,               \* failed[ws]: the messages whose send_text raised
  next_event,           \* number of messages stamped so far
  fhe_value,            \* the EncryptedValue the client holds
  fhe_request,          \* the last FHEComputeRequest
  fhe_result,           \* the FHEComputeResult it got
  fhe_chain             \* computations applied in a row to their own output

simVars == <<state, logs, pending_transaction, pin_attempts, next_id, history>>
session == <<state, pending_transaction, pin_attempts>>
reqVars == <<pc, frame, resp>>
obsVars == <<wrong_run, locked_out>>
hubVars == <<active_connections, connection_info, sock, wpc, inbox, failed,
            next_event>>
fheVars == <<fhe_value, fhe_request, fhe_result, fhe_chain>>
vars == <<simVars, reqVars, obsVars, hubVars, fheVars>>

(***************************************************************************)
(* models/device.py                                                        *)
(***************************************************************************)
DeviceState ==
  [ is_connected |-> FALSE,
    is_unlocked |-> FALSE,
    screen |-> "home",
    balance |-> "0.00000000",
    address |-> "octra1...",
    awaiting_confirmation |-> FALSE,
    last_activity |-> None,
    device_info |-> None ]

mock_addresses(device_type) ==
  CASE device_type = "ledger" -> "octra1qpzry9x8gf2tvdw0s3jn54khce6mua7l5ta2m8c"
    [] device_type = "trezor" -> "octra1abc123def456ghi789jkl012mno345pqr678stu"
    [] device_type = "octra" -> "octra1xyz789abc123def456ghi789jkl012mno345pqr"
    [] OTHER -> "octra1..."

mock_balances(device_type) ==
  CASE device_type = "ledger" -> "125.80000000"
    [] device_type = "trezor" -> "89.45123456"
    [] device_type = "octra" -> "203.12345678"
    [] OTHER -> "0.00000000"

(***************************************************************************)
(* The activity log                                                        *)
(***************************************************************************)
\* the LogEntry built by _add_log while the session is st
LogEntry(id, st, level, message, context) ==
  [ id |-> id,
    timestamp |-> Timestamp,
    level |-> level,
    message |-> message,
    device_type |-> IF st.device_info # None THEN st.device_info.device_type
                    ELSE "None",
    context |-> context ]

\* mutant: the slice keeps the first 100 entries, self.logs[:100]
_add_log_keep_first(l, log_entry) ==
  LET appended == Append(l, log_entry)
  IN IF Len(appended) > LogCapacity THEN SubSeq(appended, 1, LogCapacity)
     ELSE appended

\* self.logs.append(log_entry); keep only the last 100
_add_log(l, log_entry) ==
  LET appended == Append(l, log_entry)
      n == Len(appended)
  IN IF n > LogCapacity THEN SubSeq(appended, n - LogCapacity + 1, n)
     ELSE appended

\* one call of _add_log on the simulator whose session is st
Log(st, level, message, context) ==
  LET e == LogEntry(next_id, st, level, message, context)
  IN /\ logs' = _add_log(logs, e)
     /\ history' = Append(history, e)
     /\ next_id' = next_id + 1

\* two calls of _add_log in a row
Log2(st, level1, message1, context1, level2, message2, context2) ==
  LET e1 == LogEntry(next_id, st, level1, message1, context1)
      e2 == LogEntry(next_id + 1, st, level2, message2, context2)
  IN /\ logs' = _add_log(_add_log(logs, e1), e2)
     /\ history' = Append(Append(history, e1), e2)
     /\ next_id' = next_id + 2

NoLog == UNCHANGED <<logs, history, next_id>>

(***************************************************************************)
(* Request coroutines                                                      *)
(***************************************************************************)
NoFrame == [op |-> "none"]
Raise(kind) == [exception |-> kind]
Raised(x) == "exception" \in DOMAIN x

\* request r enters the method op
Enter(r) == pc[r] = "idle"

\* request r has just completed the operation op
Done(r, op) == pc[r] = "done" /\ frame[r].op = op

\* request r calls the operation op in this step
Calls(r, op) == pc[r] = "idle" /\ pc'[r] # "idle" /\ frame'[r].op = op

\* what an observer of the calls has seen once the call f has ended with x
Observe(f, x) ==
  /\ wrong_run' =
       IF f.op = "unlock" /\ f.pin # default_pin
       THEN IF wrong_run > 0 THEN IF wrong_run < 4 THEN wrong_run + 1 ELSE 4
            ELSE IF state.is_connected /\ ~state.is_unlocked /\ pin_attempts = 0
                 THEN 1 ELSE 0
       ELSE 0
  /\ locked_out' =
       IF x = Raise("DeviceLocked") THEN TRUE
       ELSE IF f.op = "connect" /\ ~Raised(x) THEN FALSE
       ELSE locked_out

\* the call returns (or raises) x
Finish(r, f, x) ==
  /\ pc' = [pc EXCEPT ![r] = "done"]
  /\ frame' = [frame EXCEPT ![r] = f]
  /\ resp' = [resp EXCEPT ![r] = x]
  /\ Observe(f, x)

\* the call suspends at label with locals f
Suspend(r, label, f) ==
  /\ pc' = [pc EXCEPT ![r] = label]
  /\ frame' = [frame EXCEPT ![r] = f]
  /\ UNCHANGED <<resp, obsVars>>

\* the response has been handed to the client
Return(r) ==
  /\ UNCHANGED <<hubVars, fheVars>>
  /\ pc[r] = "done"
  /\ pc' = [pc EXCEPT ![r] = "idle"]
  /\ frame' = [frame EXCEPT ![r] = NoFrame]
  /\ resp' = [resp EXCEPT ![r] = None]
  /\ UNCHANGED <<simVars, obsVars>>

(***************************************************************************)
(* DeviceSimulator.connect_device                                          *)
(***************************************************************************)
\* mutant: pin_attempts is reset before the connection check
connect_device_reset_first(r, device_info) ==
  /\ UNCHANGED <<hubVars, fheVars>>
  /\ Enter(r)
  /\ pin_attempts' = 0
  /\ IF state.is_connected
     THEN Finish(r, [op |-> "connect", device_info |-> device_info],
                 Raise("AlreadyConnected"))
     ELSE Suspend(r, "connect_sleep",
                  [op |-> "connect", device_info |-> device_info])
  /\ UNCHANGED <<state, logs, pending_transaction, next_id, history>>

connect_device(r, device_info) ==
  /\ UNCHANGED <<hubVars, fheVars>>
  /\ Enter(r)
  /\ IF state.is_connected
     THEN Finish(r, [op |-> "connect", device_info |-> device_info],
                 Raise("AlreadyConnected"))
     ELSE Suspend(r, "connect_sleep",
                  [op |-> "connect", device_info |-> device_info])
  /\ UNCHANGED simVars

\* mutant: connecting does not reset pin_attempts
connect_device_resume_keep_attempts(r) ==
  /\ UNCHANGED <<hubVars, fheVars>>
  /\ pc[r] = "connect_sleep"
  /\ LET device_info == frame[r].device_info
         st == [state EXCEPT !.is_connected = TRUE,
                             !.device_info = device_info,
                             !.last_activity = Timestamp,
                             !.screen = "home"]
     IN /\ state' = st
        /\ Log(st, "success",
               [text |-> "{name} connected successfully",
                name |-> device_info.name],
               [device_type |-> device_info.device_type])
        /\ Finish(r, frame[r],
                  [connected |-> TRUE, device |-> device_info,
                   screen |-> st.screen])
  /\ UNCHANGED <<pending_transaction, pin_attempts>>

connect_device_resume(r) ==
  /\ UNCHANGED <<hubVars, fheVars>>
  /\ pc[r] = "connect_sleep"
  /\ LET device_info == frame[r].device_info
         st == [state EXCEPT !.is_connected = TRUE,
                             !.device_info = device_info,
                             !.last_activity = Timestamp,
                             !.screen = "home"]
     IN /\ state' = st
        /\ pin_attempts' = 0
        /\ Log(st, "success",
               [text |-> "{name} connected successfully",
                name |-> device_info.name],
               [device_type |-> device_info.device_type])
        /\ Finish(r, frame[r],
                  [connected |-> TRUE, device |-> device_info,
                   screen |-> st.screen])
  /\ UNCHANGED pending_transaction

(***************************************************************************)
(* DeviceSimulator.disconnect_device                                       *)
(***************************************************************************)
disconnect_device(r) ==
  /\ UNCHANGED <<hubVars, fheVars>>
  /\ Enter(r)
  /\ IF ~state.is_connected
     THEN /\ Finish(r, [op |-> "disconnect"], Raise("NotConnected"))
          /\ UNCHANGED simVars
     ELSE LET device_name == IF state.device_info # None
                             THEN state.device_info.name
                             ELSE "Unknown device"
          IN /\ state' = DeviceState
             /\ pending_transaction' = None
             /\ Log(DeviceState, "warning",
                    [text |-> "{device_name} disconnected",
                     name |-> device_name], [empty |-> TRUE])
             /\ Finish(r, [op |-> "disconnect"], [disconnected |-> TRUE])
             /\ UNCHANGED pin_attempts

(***************************************************************************)
(* DeviceSimulator.unlock_device                                           *)
(***************************************************************************)
\* mutant: the connection check is missing
unlock_precheck_unconnected(st) ==
  IF st.is_unlocked THEN "already_unlocked" ELSE "verify"

\* mutant: an unlocked session verifies the PIN again
unlock_precheck_reverify(st) ==
  IF ~st.is_connected THEN "NotConnected" ELSE "verify"

\* the checks made before the PIN verification delay
unlock_precheck(st) ==
  IF ~st.is_connected THEN "NotConnected"
  ELSE IF st.is_unlocked THEN "already_unlocked"
  ELSE "verify"

unlock_device(r, pin) ==
  /\ UNCHANGED <<hubVars, fheVars>>
  /\ Enter(r)
  /\ LET f == [op |-> "unlock", pin |-> pin]
         check == unlock_precheck(state)
     IN CASE check = "NotConnected" -> Finish(r, f, Raise("NotConnected"))
          [] check = "already_unlocked" ->
               Finish(r, f, [unlocked |-> TRUE, already_unlocked |-> TRUE])
          [] OTHER -> Suspend(r, "unlock_sleep", f)
  /\ UNCHANGED simVars

\* mutant: the screen stays as it was
unlock_success_same_screen(st) ==
  LET st1 == [st EXCEPT !.is_unlocked = TRUE,
                        !.last_activity = Timestamp]
  IN IF st1.device_info # None
     THEN [st1 EXCEPT !.address = mock_addresses(st1.device_info.device_type),
                      !.balance = mock_balances(st1.device_info.device_type)]
     ELSE st1

\* the session after a correct PIN
unlock_success(st) ==
  LET st1 == [st EXCEPT !.is_unlocked = TRUE,
                        !.screen = "wallet",
                        !.last_activity = Timestamp]
  IN IF st1.device_info # None
     THEN [st1 EXCEPT !.address = mock_addresses(st1.device_info.device_type),
                      !.balance = mock_balances(st1.device_info.device_type)]
     ELSE st1

\* mutant: the device locks one attempt late
unlock_failure_late(st, remaining_attempts) ==
  IF remaining_attempts < 0
  THEN [st EXCEPT !.is_connected = FALSE]
  ELSE st

\* the session after the wrong PIN that leaves remaining_attempts
unlock_failure(st, remaining_attempts) ==
  IF remaining_attempts <= 0
  THEN [st EXCEPT !.is_connected = FALSE]
  ELSE st

unlock_device_resume(r) ==
  /\ UNCHANGED <<hubVars, fheVars>>
  /\ pc[r] = "unlock_sleep"
  /\ IF frame[r].pin = default_pin
     THEN LET st == unlock_success(state)
          IN /\ state' = st
             /\ pin_attempts' = 0
             /\ Log(st, "success",
                    [text |-> "Device unlocked successfully"],
                    [empty |-> TRUE])
             /\ Finish(r, frame[r],
                       [unlocked |-> TRUE, address |-> st.address,
                        balance |-> st.balance, screen |-> st.screen])
     ELSE LET attempts == pin_attempts + 1
              remaining_attempts == max_pin_attempts - attempts
              st == unlock_failure(state, remaining_attempts)
              invalid == [text |-> "Invalid PIN. {n} attempts remaining",
                          n |-> remaining_attempts]
              ctx == [attempts_remaining |-> remaining_attempts]
          IN /\ pin_attempts' = attempts
             /\ state' = st
             /\ IF remaining_attempts <= 0
                THEN /\ Log2(state, "error", invalid, ctx,
                             "error",
                             [text |-> "Device locked due to too many invalid PIN attempts"],
                             [empty |-> TRUE])
                     /\ Finish(r, frame[r], Raise("DeviceLocked"))
                ELSE /\ Log(state, "error", invalid, ctx)
                     /\ Finish(r, frame[r],
                               [unlocked |-> FALSE, error |-> "Invalid PIN",
                                attempts_remaining |-> remaining_attempts])
  /\ UNCHANGED pending_transaction

(***************************************************************************)
(* DeviceSimulator.sign_transaction                                        *)
(***************************************************************************)
\* mutant: the unlocked check comes before the connected check
sign_precheck_unlocked_first(st) ==
  IF ~st.is_unlocked THEN "NotUnlocked"
  ELSE IF ~st.is_connected THEN "NotConnected"
  ELSE IF st.awaiting_confirmation THEN "AlreadyPending"
  ELSE "ok"

\* the precondition checks, in the order the method makes them
sign_precheck(st) ==
  IF ~st.is_connected THEN "NotConnected"
  ELSE IF ~st.is_unlocked THEN "NotUnlocked"
  ELSE IF st.awaiting_confirmation THEN "AlreadyPending"
  ELSE "ok"

sign_transaction(r, transaction) ==
  /\ UNCHANGED <<hubVars, fheVars>>
  /\ Enter(r)
  /\ LET f == [op |-> "sign", transaction |-> transaction]
         check == sign_precheck(state)
     IN IF check # "ok"
        THEN /\ Finish(r, f, Raise(check))
             /\ UNCHANGED simVars
        ELSE LET st == [state EXCEPT !.awaiting_confirmation = TRUE,
                                     !.screen = "confirm",
                                     !.last_activity = Timestamp]
             IN /\ pending_transaction' = transaction
                /\ state' = st
                /\ Log(st, "info",
                       [text |-> "Transaction signing requested: {amount} OCTRA to {to_address[:10]}...",
                        amount |-> transaction.amount,
                        to_address |-> transaction.to_address],
                       [transaction |-> transaction])
                /\ Finish(r, f,
                          [signing_requested |-> TRUE,
                           transaction |-> transaction,
                           awaiting_confirmation |-> TRUE,
                           screen |-> st.screen])
                /\ UNCHANGED pin_attempts

(***************************************************************************)
(* DeviceSimulator.confirm_transaction                                     *)
(***************************************************************************)
\* hashlib.sha256 of the formatted fields: the digest stands for its input
sha256(fields) == [sha256 |-> fields]

\* the checks, and the rejection branch; the frame keeps, for the observer,
\* the transaction that is pending when the call is made
confirm_transaction(r, confirmed) ==
  /\ UNCHANGED <<hubVars, fheVars>>
  /\ Enter(r)
  /\ LET f == [op |-> "confirm", confirmed |-> confirmed,
               accepted |-> pending_transaction]
     IN IF ~state.awaiting_confirmation \/ pending_transaction = None
        THEN /\ Finish(r, f, Raise("NoPendingTransaction"))
             /\ UNCHANGED simVars
        ELSE IF confirmed
        THEN /\ Suspend(r, "sign_sleep", f)
             /\ UNCHANGED simVars
        ELSE LET st == [state EXCEPT !.screen = "wallet"]
             IN /\ Log(state, "warning",
                       [text |-> "Transaction rejected by user"],
                       [empty |-> TRUE])
                /\ pending_transaction' = None
                /\ state' = [st EXCEPT !.awaiting_confirmation = FALSE,
                                       !.last_activity = Timestamp]
                /\ Finish(r, f,
                          [confirmed |-> FALSE, rejected |-> TRUE,
                           screen |-> st.screen])
                /\ UNCHANGED pin_attempts

\* after the signing delay: build the SignatureResult, show the signed screen
confirm_transaction_sign(r) ==
  /\ UNCHANGED <<hubVars, fheVars>>
  /\ pc[r] = "sign_sleep"
  /\ IF pending_transaction = None \/ state.device_info = None
     THEN \* None has no attribute to_address / device_type
          /\ Finish(r, frame[r], Raise("AttributeError"))
          /\ UNCHANGED simVars
     ELSE \E token \in Tokens:
            LET signature == sha256(<<pending_transaction.to_address,
                                      pending_transaction.amount, Timestamp>>)
                tx_hash == sha256(<<signature, token>>)
                result == [signature |-> signature,
                           transaction_hash |-> tx_hash,
                           signed_at |-> Timestamp,
                           device_type |-> state.device_info.device_type]
                st == [state EXCEPT !.screen = "signed"]
            IN /\ state' = st
               /\ Log(st, "success",
                      [text |-> "Transaction signed successfully: {tx_hash[:16]}...",
                       tx_hash |-> tx_hash],
                      [empty |-> TRUE])
               /\ Suspend(r, "revert_sleep",
                          [op |-> "confirm", confirmed |-> TRUE,
                           accepted |-> frame[r].accepted,
                           result |-> result])
               /\ UNCHANGED <<pending_transaction, pin_attempts>>

\* mutant: the signed screen stays after the delay
confirm_transaction_revert_signed(r) ==
  /\ UNCHANGED <<hubVars, fheVars>>
  /\ pc[r] = "revert_sleep"
  /\ state' = [state EXCEPT !.awaiting_confirmation = FALSE,
                            !.last_activity = Timestamp]
  /\ pending_transaction' = None
  /\ Finish(r, frame[r],
            [confirmed |-> TRUE,
             signature_result |-> frame[r].result,
             screen |-> state.screen])
  /\ NoLog
  /\ UNCHANGED pin_attempts

\* mutant: the confirmed branch returns without clearing the transaction
confirm_transaction_revert_keep(r) ==
  /\ UNCHANGED <<hubVars, fheVars>>
  /\ pc[r] = "revert_sleep"
  /\ LET st == [state EXCEPT !.screen = "wallet"]
     IN /\ state' = [st EXCEPT !.last_activity = Timestamp]
        /\ Finish(r, frame[r],
                  [confirmed |-> TRUE,
                   signature_result |-> frame[r].result,
                   screen |-> st.screen])
  /\ NoLog
  /\ UNCHANGED <<pending_transaction, pin_attempts>>

\* after the two second delay: back to the wallet screen, build the response,
\* clear the pending transaction
confirm_transaction_revert(r) ==
  /\ UNCHANGED <<hubVars, fheVars>>
  /\ pc[r] = "revert_sleep"
  /\ LET st == [state EXCEPT !.screen = "wallet"]
     IN /\ state' = [st EXCEPT !.awaiting_confirmation = FALSE,
                               !.last_activity = Timestamp]
        /\ pending_transaction' = None
        /\ Finish(r, frame[r],
                  [confirmed |-> TRUE,
                   signature_result |-> frame[r].result,
                   screen |-> st.screen])
  /\ NoLog
  /\ UNCHANGED pin_attempts

(***************************************************************************)
(* DeviceSimulator.generate_address, get_status, clear_logs                *)
(***************************************************************************)
\* mutant: the generated address becomes the address of the session
generate_address_stored(r, derivation_path) ==
  /\ UNCHANGED <<hubVars, fheVars>>
  /\ Enter(r)
  /\ LET f == [op |-> "generate_address", derivation_path |-> derivation_path]
     IN IF ~state.is_connected \/ ~state.is_unlocked
        THEN /\ Finish(r, f, Raise("NotReady"))
             /\ UNCHANGED simVars
        ELSE IF state.device_info = None
        THEN /\ Finish(r, f, Raise("AttributeError"))
             /\ UNCHANGED simVars
        ELSE \E token \in Tokens:
               LET seed == <<state.device_info.device_type, derivation_path,
                             token>>
                   address == <<"octra1", sha256(seed)>>
                   public_key == sha256(<<"pubkey", seed>>)
               IN /\ Log(state, "info",
                         [text |-> "Generated new address: {address[:16]}...",
                          address |-> address],
                         [empty |-> TRUE])
                  /\ Finish(r, f,
                            [address |-> address,
                             derivation_path |-> derivation_path,
                             public_key |-> public_key,
                             address_type |-> "octra"])
                  /\ state' = [state EXCEPT !.address = "octra1{address_hash[:40]}"]
                  /\ UNCHANGED <<pending_transaction, pin_attempts>>

generate_address(r, derivation_path) ==
  /\ UNCHANGED <<hubVars, fheVars>>
  /\ Enter(r)
  /\ LET f == [op |-> "generate_address", derivation_path |-> derivation_path]
     IN IF ~state.is_connected \/ ~state.is_unlocked
        THEN /\ Finish(r, f, Raise("NotReady"))
             /\ UNCHANGED simVars
        ELSE IF state.device_info = None
        THEN /\ Finish(r, f, Raise("AttributeError"))
             /\ UNCHANGED simVars
        ELSE \E token \in Tokens:
               LET seed == <<state.device_info.device_type, derivation_path,
                             token>>
                   address == <<"octra1", sha256(seed)>>
                   public_key == sha256(<<"pubkey", seed>>)
               IN /\ Log(state, "info",
                         [text |-> "Generated new address: {address[:16]}...",
                          address |-> address],
                         [empty |-> TRUE])
                  /\ Finish(r, f,
                            [address |-> address,
                             derivation_path |-> derivation_path,
                             public_key |-> public_key,
                             address_type |-> "octra"])
                  /\ UNCHANGED session

\* mutant: the attempts made are reported as the attempts remaining
status_attempts_made(st, pending, attempts) ==
  [ device_state |-> st,
    pending_transaction |-> pending,
    pin_attempts_remaining |-> attempts ]

\* the dict get_status builds from the simulator
status(st, pending, attempts) ==
  [ device_state |-> st,
    pending_transaction |-> pending,
    pin_attempts_remaining |-> max_pin_attempts - attempts ]

get_status(r) ==
  /\ UNCHANGED <<hubVars, fheVars>>
  /\ Enter(r)
  /\ Finish(r, [op |-> "status"],
            status(state, pending_transaction, pin_attempts))
  /\ UNCHANGED simVars

\* mutant: the slice takes the first entries, self.logs[:limit]
get_logs_first(r, limit) ==
  /\ UNCHANGED <<hubVars, fheVars>>
  /\ Enter(r)
  /\ LET n == Len(logs)
         stop == IF limit > n THEN n ELSE limit
         recent_logs == IF limit > 0 THEN SubSeq(logs, 1, stop) ELSE logs
     IN Finish(r, [op |-> "get_logs", limit |-> limit],
               [logs |-> recent_logs])
  /\ UNCHANGED simVars

\* self.logs[-limit:] starts limit entries before the end, or at the first
\* entry when the list is shorter; log.dict() keeps the fields of each entry
get_logs(r, limit) ==
  /\ UNCHANGED <<hubVars, fheVars>>
  /\ Enter(r)
  /\ LET n == Len(logs)
         start == IF n - limit < 0 THEN 0 ELSE n - limit
         recent_logs == IF limit > 0 THEN SubSeq(logs, start + 1, n) ELSE logs
     IN Finish(r, [op |-> "get_logs", limit |-> limit],
               [logs |-> recent_logs])
  /\ UNCHANGED simVars

\* mutant: the entry is appended to a log that was not emptied
clear_logs_keep(r) ==
  /\ UNCHANGED <<hubVars, fheVars>>
  /\ Enter(r)
  /\ Log(state, "info", [text |-> "Activity logs cleared"], [empty |-> TRUE])
  /\ Finish(r, [op |-> "clear_logs"], [cleared |-> TRUE])
  /\ UNCHANGED session

clear_logs(r) ==
  /\ UNCHANGED <<hubVars, fheVars>>
  /\ Enter(r)
  /\ LET e == LogEntry(next_id, state, "info",
                       [text |-> "Activity logs cleared"], [empty |-> TRUE])
     IN /\ logs' = _add_log(<<>>, e)
        /\ history' = <<e>>
        /\ next_id' = next_id + 1
  /\ Finish(r, [op |-> "clear_logs"], [cleared |-> TRUE])
  /\ UNCHANGED session

(***************************************************************************)
(* Specifications                                                          *)
(***************************************************************************)
\* websocket_manager = WebSocketManager(); no channel opened yet
InitHub ==
  /\ active_connections = <<>>
  /\ connection_info = {}
  /\ sock = [ws \in WebSockets |-> "new"]
  /\ wpc = [ws \in WebSockets |-> "new"]
  /\ inbox = [ws \in WebSockets |-> <<>>]
  /\ failed = [ws \in WebSockets |-> {}]
  /\ next_event = 0

\* fhe_service = FHEService(); nothing encrypted yet
InitFhe ==
  /\ fhe_value = None
  /\ fhe_request = None
  /\ fhe_result = None
  /\ fhe_chain = 0

Init ==
  /\ InitHub
  /\ InitFhe
  /\ state = DeviceState
  /\ logs = <<>>
  /\ pending_transaction = None
  /\ pin_attempts = 0
  /\ next_id = 0
  /\ history = <<>>
  /\ pc = [r \in Requests |-> "idle"]
  /\ frame = [r \in Requests |-> NoFrame]
  /\ resp = [r \in Requests |-> None]
  /\ wrong_run = 0
  /\ locked_out = FALSE

\* no request is in flight
Quiet == \A r \in Requests: pc[r] = "idle"

\* no request is suspended inside an operation
Settled == \A r \in Requests: pc[r] \in {"idle", "done"}

\* serialized callers: an operation is called only when none is in flight
Serial == Quiet /\ next_id < MaxAppends

Next ==
  \E r \in Requests:
    \/ \E device_info \in DeviceInfos: Serial /\ connect_device(r, device_info)
    \/ Serial /\ disconnect_device(r)
    \/ \E pin \in Pins: Serial /\ unlock_device(r, pin)
    \/ \E transaction \in Transactions: Serial /\ sign_transaction(r, transaction)
    \/ \E confirmed \in BOOLEAN: Serial /\ confirm_transaction(r, confirmed)
    \/ \E path \in DerivationPaths: Serial /\ generate_address(r, path)
    \/ Serial /\ get_status(r)
    \/ Serial /\ clear_logs(r)
    \/ connect_device_resume(r)
    \/ unlock_device_resume(r)
    \/ confirm_transaction_sign(r)
    \/ confirm_transaction_revert(r)
    \/ Return(r)

Spec == Init /\ [][Next]_vars

\* the event loop resumes a confirmation when its two second sleep is over
SpecFair ==
  Spec /\ \A r \in Requests: WF_vars(confirm_transaction_revert(r))

\* the asyncio event loop: a request may be called while others sleep
Budget == next_id < MaxAsyncAppends

NextAsync ==
  \E r \in Requests:
    \/ \E device_info \in DeviceInfos: Budget /\ connect_device(r, device_info)
    \/ Budget /\ disconnect_device(r)
    \/ \E pin \in Pins: Budget /\ unlock_device(r, pin)
    \/ \E transaction \in Transactions: Budget /\ sign_transaction(r, transaction)
    \/ \E confirmed \in BOOLEAN: Budget /\ confirm_transaction(r, confirmed)
    \/ \E path \in DerivationPaths: Budget /\ generate_address(r, path)
    \/ Budget /\ get_status(r)
    \/ Budget /\ clear_logs(r)
    \/ connect_device_resume(r)
    \/ unlock_device_resume(r)
    \/ confirm_transaction_sign(r)
    \/ confirm_transaction_revert(r)
    \/ Return(r)

SpecAsync == Init /\ [][NextAsync]_vars

(***************************************************************************)
(* WebSocketManager (services/websocket_manager.py) and the /ws handler    *)
(* (main.py).  send_text to a websocket succeeds while its transport is    *)
(* open and raises once it is closed.                                      *)
(***************************************************************************)
EventTypes == {"device_connected", "device_disconnected"}

\* the elements of the list l
Elements(l) == {l[i] : i \in 1..Len(l)}

\* how many times m occurs in the list l
Count(l, m) == Cardinality({i \in 1..Len(l) : l[i] = m})

\* list.remove(x): the list without the first occurrence of x
Remove(l, x) ==
  LET first == CHOOSE i \in 1..Len(l):
                 l[i] = x /\ \A j \in 1..(i - 1): l[j] # x
  IN SubSeq(l, 1, first - 1) \o SubSeq(l, first + 1, Len(l))

\* mutant: `if websocket in self.active_connections` guards nothing
disconnect_noop(connections, websocket) == connections

\* WebSocketManager.disconnect: active_connections after it
disconnect(connections, websocket) ==
  IF websocket \in Elements(connections)
  THEN Remove(connections, websocket)
  ELSE connections

RECURSIVE disconnect_all(_, _)
\* `for connection in disconnected: self.disconnect(connection)`
disconnect_all(connections, disconnected) ==
  IF disconnected = <<>> THEN connections
  ELSE disconnect_all(disconnect(connections, Head(disconnected)),
                      Tail(disconnected))

\* await websocket.send_text(message): delivered, or raised
send_text(websocket, message) ==
  IF sock[websocket] = "open"
  THEN /\ inbox' = [inbox EXCEPT ![websocket] = Append(@, message)]
       /\ UNCHANGED failed
  ELSE /\ failed' = [failed EXCEPT ![websocket] = @ \cup {message}]
       /\ UNCHANGED inbox

\* the peer or the network closes the transport of ws
peer_close(ws) ==
  /\ sock[ws] = "open"
  /\ sock' = [sock EXCEPT ![ws] = "closed"]
  /\ UNCHANGED <<active_connections, connection_info, wpc, inbox, failed,
                 next_event>>
  /\ UNCHANGED <<simVars, reqVars, obsVars, fheVars>>

\* WebSocketManager.connect up to the await of the welcome send
ws_connect(ws) ==
  /\ wpc[ws] = "new"
  /\ sock' = [sock EXCEPT ![ws] = "open"]
  /\ active_connections' = Append(active_connections, ws)
  /\ connection_info' = connection_info \cup {ws}
  /\ wpc' = [wpc EXCEPT ![ws] = "welcome"]
  /\ UNCHANGED <<inbox, failed, next_event>>
  /\ UNCHANGED <<simVars, reqVars, obsVars, fheVars>>

\* mutant: a failed welcome leaves the channel subscribed
ws_welcome_keep(ws) ==
  /\ wpc[ws] = "welcome"
  /\ send_text(ws, [type |-> "connection_established", client_id |-> ws])
  /\ UNCHANGED <<active_connections, connection_info>>
  /\ wpc' = [wpc EXCEPT ![ws] = "receive"]
  /\ UNCHANGED <<sock, next_event>>
  /\ UNCHANGED <<simVars, reqVars, obsVars, fheVars>>

\* send_personal_message of the welcome completes; the handler then awaits
\* websocket.receive_text()
ws_welcome(ws) ==
  /\ wpc[ws] = "welcome"
  /\ send_text(ws, [type |-> "connection_established", client_id |-> ws])
  /\ IF sock[ws] = "open"
     THEN UNCHANGED <<active_connections, connection_info>>
     ELSE /\ active_connections' = disconnect(active_connections, ws)
          /\ connection_info' =
               IF ws \in Elements(active_connections)
               THEN connection_info \ {ws} ELSE connection_info
  /\ wpc' = [wpc EXCEPT ![ws] = "receive"]
  /\ UNCHANGED <<sock, next_event>>
  /\ UNCHANGED <<simVars, reqVars, obsVars, fheVars>>

\* the handler receives {"type": "ping"} and answers with a pong
ws_ping(ws) ==
  /\ wpc[ws] = "receive"
  /\ sock[ws] = "open"
  /\ inbox' = [inbox EXCEPT ![ws] =
                 Append(@, [type |-> "pong", timestamp |-> next_event])]
  /\ next_event' = next_event + 1
  /\ UNCHANGED <<active_connections, connection_info, sock, wpc, failed>>
  /\ UNCHANGED <<simVars, reqVars, obsVars, fheVars>>

\* the handler receives a text that is not JSON: json.loads raises, no except
\* clause of the handler matches, and the handler ends without unsubscribing;
\* the server closes the transport of a handler that raised
ws_invalid_json(ws) ==
  /\ wpc[ws] = "receive"
  /\ sock[ws] = "open"
  /\ wpc' = [wpc EXCEPT ![ws] = "ended"]
  /\ sock' = [sock EXCEPT ![ws] = "closed"]
  /\ UNCHANGED <<active_connections, connection_info, inbox, failed,
                 next_event>>
  /\ UNCHANGED <<simVars, reqVars, obsVars, fheVars>>

\* receive_text raises WebSocketDisconnect: the handler unsubscribes and ends
ws_disconnected(ws) ==
  /\ wpc[ws] = "receive"
  /\ sock[ws] = "closed"
  /\ active_connections' = disconnect(active_connections, ws)
  /\ connection_info' =
       IF ws \in Elements(active_connections)
       THEN connection_info \ {ws} ELSE connection_info
  /\ wpc' = [wpc EXCEPT ![ws] = "ended"]
  /\ UNCHANGED <<sock, inbox, failed, next_event>>
  /\ UNCHANGED <<simVars, reqVars, obsVars, fheVars>>

\* WebSocketManager.broadcast up to the await of the first send.  The frame
\* keeps the loop's iterator (index, connection), the list `disconnected`
\* and, for the observer, the subscribers at the start of the pass.
broadcast(r, type) ==
  /\ Enter(r)
  /\ LET message == [type |-> type, timestamp |-> next_event]
         f == [op |-> "broadcast", message |-> message,
               start |-> active_connections]
     IN IF active_connections = <<>>
        THEN Finish(r, f, [returned |-> None])
        ELSE Suspend(r, "broadcast_send",
                     [op |-> "broadcast", message |-> message,
                      start |-> active_connections,
                      index |-> 1, connection |-> active_connections[1],
                      disconnected |-> <<>>])
  /\ next_event' = next_event + 1
  /\ UNCHANGED <<active_connections, connection_info, sock, wpc, inbox,
                 failed>>
  /\ UNCHANGED <<simVars, fheVars>>

\* the send to frame[r].connection completes or raises; the loop takes the
\* next connection of the list or, at its end, drops the disconnected ones
broadcast_send(r) ==
  /\ pc[r] = "broadcast_send"
  /\ LET f == frame[r]
         disconnected == IF sock[f.connection] = "open" THEN f.disconnected
                         ELSE Append(f.disconnected, f.connection)
         index == f.index + 1
     IN /\ send_text(f.connection, f.message)
        /\ IF index <= Len(active_connections)
           THEN /\ Suspend(r, "broadcast_send",
                           [f EXCEPT !.index = index,
                                     !.connection = active_connections[index],
                                     !.disconnected = disconnected])
                /\ UNCHANGED <<active_connections, connection_info>>
           ELSE /\ active_connections' =
                     disconnect_all(active_connections, disconnected)
                /\ connection_info' =
                     connection_info \
                       (Elements(disconnected) \cap Elements(active_connections))
                /\ Finish(r, [f EXCEPT !.disconnected = disconnected],
                          [returned |-> None])
  /\ UNCHANGED <<sock, wpc, next_event>>
  /\ UNCHANGED <<simVars, fheVars>>

\* a channel is being subscribed
Subscribing == \E ws \in WebSockets: wpc[ws] = "welcome"

\* the hub on its own; a broadcast pass does not overlap a subscribe, an
\* unsubscribe or the end of a handler, transports close at any time
NextHub ==
  \/ \E ws \in WebSockets: Quiet /\ ws_connect(ws)
  \/ \E ws \in WebSockets: Quiet /\ ws_welcome(ws)
  \/ \E ws \in WebSockets: Quiet /\ ws_disconnected(ws)
  \/ \E ws \in WebSockets: next_event < MaxEvents /\ ws_ping(ws)
  \/ \E ws \in WebSockets: Quiet /\ ws_invalid_json(ws)
  \/ \E ws \in WebSockets: peer_close(ws)
  \/ \E type \in EventTypes:
       Quiet /\ ~Subscribing /\ next_event < MaxEvents /\ broadcast("r1", type)
  \/ broadcast_send("r1")
  \/ Return("r1")

SpecHub == Init /\ [][NextHub]_vars

\* C6: a broadcast pass that no subscribe or unsubscribe overlaps delivers the
\* message exactly once to every subscriber whose push succeeded and to nobody
\* else, unsubscribes exactly the subscribers whose push raised, keeps the
\* others in their order, and with no subscriber returns without any effect.
C6_BroadcastDeliversAndPrunes ==
  \A r \in Requests:
    Done(r, "broadcast") =>
      LET m == frame[r].message
          start == frame[r].start
      IN /\ ~Raised(resp[r])
         /\ \A w \in WebSockets:
              /\ Count(inbox[w], m) + Cardinality(failed[w] \cap {m})
                   = (IF w \in Elements(start) THEN 1 ELSE 0)
              /\ w \in Elements(active_connections)
                   <=> (w \in Elements(start) /\ m \notin failed[w])
         /\ active_connections
              = SelectSeq(start, LAMBDA w: m \notin failed[w])

C6_Witness ==
  \E r \in Requests:
    /\ Done(r, "broadcast")
    /\ Len(frame[r].start) = 3
    /\ frame[r].message \in failed[frame[r].start[2]]
    /\ Count(inbox[frame[r].start[1]], frame[r].message) = 1
    /\ Count(inbox[frame[r].start[3]], frame[r].message) = 1
    /\ Len(active_connections) = 2

(***************************************************************************)
(* FHEService (services/fhe_service.py).  A digest is opaque: the hex      *)
(* string of a sha256 is modelled as "hexdigest", whatever was hashed.     *)
(***************************************************************************)
FHEOperation == {"add", "multiply", "compare", "max", "average", "vote"}
FHEDataType == {"integer", "decimal", "boolean"}

\* EncryptedValue, with noise_level: int = Field(ge=1, le=10)
EncryptedValue(encrypted_data, data_type, can_compute, noise_level) ==
  [ encrypted_data |-> encrypted_data,
    data_type |-> data_type,
    can_compute |-> can_compute,
    noise_level |-> noise_level ]

\* the operands a client can submit beside the value it holds
OtherOperands ==
  { EncryptedValue("hexdigest", "decimal", TRUE, 2),
    EncryptedValue("hexdigest", "integer", FALSE, 9) }

operation_costs(operation) ==
  CASE operation = "add" -> 100
    [] operation = "multiply" -> 500
    [] operation = "compare" -> 300
    [] operation = "max" -> 400
    [] operation = "average" -> 600
    [] operation = "vote" -> 200
    [] OTHER -> 100

\* max([op.noise_level for op in operands])
RECURSIVE MaxNoise(_)
MaxNoise(operands) ==
  IF Len(operands) = 1 THEN operands[1].noise_level
  ELSE LET rest == MaxNoise(Tail(operands))
       IN IF operands[1].noise_level > rest THEN operands[1].noise_level
          ELSE rest

\* mutant: the noise level is not capped, max_noise + 1
_mock_compute_uncapped(operation, operands) ==
  EncryptedValue("hexdigest",
                 IF operands # <<>> THEN operands[1].data_type ELSE "integer",
                 (IF operands # <<>> THEN MaxNoise(operands) ELSE 1) + 1 < 8,
                 (IF operands # <<>> THEN MaxNoise(operands) ELSE 1) + 1)

\* mutant: the result takes the type of the last operand and refuses
\* operands that cannot compute
_mock_compute_last_type(operation, operands) ==
  LET result_type == IF operands # <<>> THEN operands[Len(operands)].data_type
                     ELSE "integer"
      max_noise == IF operands # <<>> THEN MaxNoise(operands) ELSE 1
      new_noise == IF max_noise + 1 < 10 THEN max_noise + 1 ELSE 10
  IN EncryptedValue("hexdigest", result_type,
                    new_noise < 8
                      /\ \A i \in 1..Len(operands): operands[i].can_compute,
                    new_noise)

_mock_compute(operation, operands) ==
  LET result_type == IF operands # <<>> THEN operands[1].data_type
                     ELSE "integer"
      max_noise == IF operands # <<>> THEN MaxNoise(operands) ELSE 1
      new_noise == IF max_noise + 1 < 10 THEN max_noise + 1 ELSE 10
  IN EncryptedValue("hexdigest", result_type, new_noise < 8, new_noise)

\* mutant: an empty operand list raises inside the try block
perform_computation_rejects_empty(request) ==
  IF request.operands = <<>>
  THEN [ operation |-> request.operation,
         result |-> EncryptedValue("", "integer", TRUE, 1),
         gas_used |-> 0,
         success |-> FALSE,
         error_message |-> [str |-> "exception"] ]
  ELSE [ operation |-> request.operation,
         result |-> _mock_compute(request.operation, request.operands),
         gas_used |-> operation_costs(request.operation),
         success |-> TRUE,
         error_message |-> None ]

\* FHEService.perform_computation; nothing in the try block raises
perform_computation(request) ==
  [ operation |-> request.operation,
    result |-> _mock_compute(request.operation, request.operands),
    gas_used |-> operation_costs(request.operation),
    success |-> TRUE,
    error_message |-> None ]

\* POST /api/fhe/encrypt: the client now holds a fresh value
encrypt_value(data_type) ==
  /\ \E noise_level \in 1..3:
       fhe_value' = EncryptedValue("hexdigest", data_type, TRUE, noise_level)
  /\ fhe_request' = None
  /\ fhe_result' = None
  /\ fhe_chain' = 0
  /\ UNCHANGED <<simVars, reqVars, obsVars, hubVars>>

\* POST /api/fhe/compute on the value the client holds, alone or with
\* another operand before or after it; the client keeps the result
compute(operation, before, after) ==
  /\ fhe_value # None
  /\ fhe_chain < MaxChain
  /\ LET request == [operation |-> operation,
                     operands |-> before \o <<fhe_value>> \o after]
         result == perform_computation(request)
     IN /\ fhe_request' = request
        /\ fhe_result' = result
        /\ fhe_value' = result.result
        /\ fhe_chain' = fhe_chain + 1
  /\ UNCHANGED <<simVars, reqVars, obsVars, hubVars>>

\* POST /api/fhe/compute on operands of the client's choosing, none or some;
\* the client keeps the result
compute_operands(operation, operands) ==
  /\ LET request == [operation |-> operation, operands |-> operands]
         result == perform_computation(request)
     IN /\ fhe_request' = request
        /\ fhe_result' = result
        /\ fhe_value' = result.result
        /\ fhe_chain' = 0
  /\ UNCHANGED <<simVars, reqVars, obsVars, hubVars>>

\* the client starts with any valid EncryptedValue
InitCompute ==
  /\ InitHub
  /\ state = DeviceState
  /\ logs = <<>>
  /\ pending_transaction = None
  /\ pin_attempts = 0
  /\ next_id = 0
  /\ history = <<>>
  /\ pc = [r \in Requests |-> "idle"]
  /\ frame = [r \in Requests |-> NoFrame]
  /\ resp = [r \in Requests |-> None]
  /\ wrong_run = 0
  /\ locked_out = FALSE
  /\ \E data_type \in FHEDataType, can_compute \in BOOLEAN,
        noise_level \in 1..10:
       fhe_value = EncryptedValue("hexdigest", data_type, can_compute,
                                  noise_level)
  /\ fhe_request = None
  /\ fhe_result = None
  /\ fhe_chain = 0

Operands == {<<>>} \cup {<<v>> : v \in OtherOperands}

\* the operand lists of a request that does not reuse a result
OperandLists == Operands \cup {<<v, w>> : v, w \in OtherOperands}

NextCompute ==
  \/ \E data_type \in FHEDataType: encrypt_value(data_type)
  \/ \E operation \in FHEOperation, before \in Operands, after \in Operands:
       compute(operation, before, after)
  \/ \E operation \in FHEOperation, operands \in OperandLists:
       compute_operands(operation, operands)

SpecCompute == InitCompute /\ [][NextCompute]_vars

\* C7: when compute is applied to its own previous result, the noise level of
\* the result is never below that of the previous result, never above 10, and
\* stays 10 once it is 10.
C7_NoiseMonotoneAndCapped ==
  [][fhe_chain' = fhe_chain + 1 =>
       /\ fhe_value'.noise_level >= fhe_value.noise_level
       /\ fhe_value'.noise_level <= 10
       /\ fhe_value.noise_level = 10 => fhe_value'.noise_level = 10]_vars

C7_Witness ==
  /\ fhe_chain >= 3
  /\ fhe_value.noise_level = 10
  /\ fhe_request.operands = <<fhe_request.operands[1]>>
  /\ fhe_request.operands[1].noise_level = 10

(***************************************************************************)
(* The activity log on its own: an unlocked session on which addresses are *)
(* generated and the log is cleared, until MaxLogAppends entries were      *)
(* appended.  It starts in the state connect(ledger); unlock("1234")       *)
(* leaves.                                                                 *)
(***************************************************************************)
LogDevice == [device_type |-> "ledger", name |-> "Ledger Nano S"]

InitLog ==
  LET connected == [DeviceState EXCEPT !.is_connected = TRUE,
                                       !.device_info = LogDevice,
                                       !.last_activity = Timestamp,
                                       !.screen = "home"]
      unlocked == unlock_success(connected)
      entries ==
        << LogEntry(0, connected, "success",
                    [text |-> "{name} connected successfully",
                     name |-> LogDevice.name],
                    [device_type |-> LogDevice.device_type]),
           LogEntry(1, unlocked, "success",
                    [text |-> "Device unlocked successfully"],
                    [empty |-> TRUE]) >>
  IN /\ InitHub
     /\ InitFhe
     /\ state = unlocked
     /\ logs = entries
     /\ history = entries
     /\ next_id = 2
     /\ pending_transaction = None
     /\ pin_attempts = 0
     /\ pc = [r \in Requests |-> "idle"]
     /\ frame = [r \in Requests |-> NoFrame]
     /\ resp = [r \in Requests |-> None]
     /\ wrong_run = 0
     /\ locked_out = FALSE

LogBudget == Quiet /\ next_id < MaxLogAppends

NextLog ==
  \/ \E path \in DerivationPaths: LogBudget /\ generate_address("r1", path)
  \/ LogBudget /\ clear_logs("r1")
  \/ \E limit \in Limits: Quiet /\ get_logs("r1", limit)
  \/ Return("r1")

SpecLog == InitLog /\ [][NextLog]_vars

\* the last n entries of the sequence s, all of it when it is shorter
Last(s, n) ==
  IF Len(s) > n THEN SubSeq(s, Len(s) - n + 1, Len(s)) ELSE s

\* C5: the log never holds more than 100 entries, and it holds exactly the
\* last min(n, 100) of the n entries appended since the last clear, in the
\* order they were appended.
C5_LogHoldsLast100 ==
  /\ Len(logs) <= LogCapacity
  /\ logs = Last(history, LogCapacity)

C5_Witness ==
  /\ Len(history) = LogCapacity + 3
  /\ Len(logs) = LogCapacity
  /\ logs[1] = history[4]

(***************************************************************************)
(* Claims about the serialized session                                     *)
(***************************************************************************)
\* C1: after every operation of a serialized run, unlocked implies connected
\* and awaiting_confirmation implies that a pending transaction is present.
C1_FlagsAfterEveryOperation ==
  Settled =>
    /\ state.is_unlocked => state.is_connected
    /\ state.awaiting_confirmation => pending_transaction # None

C1_Witness ==
  \E r \in Requests:
    /\ Done(r, "sign")
    /\ ~Raised(resp[r])
    /\ state.is_unlocked
    /\ state.awaiting_confirmation

\* C2: right after a successful disconnect, status() reports exactly the
\* default session: the default DeviceState, no pending transaction and all
\* max_pin_attempts PIN attempts remaining.
C2_DisconnectThenStatusIsDefault ==
  \A r \in Requests:
    Done(r, "disconnect") /\ ~Raised(resp[r]) =>
      status(state, pending_transaction, pin_attempts)
        = status(DeviceState, None, 0)

\* C3: three wrong PINs in a row on a connected, locked session with no failed
\* attempt leave the session disconnected, the third raising DeviceLocked;
\* from then on, until a connect succeeds, every unlock raises NotConnected
\* and changes neither the session nor the log.
C3_LockedOutUntilConnect ==
  /\ [](wrong_run = 3 =>
          /\ ~state.is_connected
          /\ locked_out
          /\ \A r \in Requests:
               pc[r] = "done" => resp[r] = Raise("DeviceLocked"))
  /\ [][\A r \in Requests:
          locked_out /\ Calls(r, "unlock") =>
            /\ pc'[r] = "done"
            /\ resp'[r] = Raise("NotConnected")
            /\ UNCHANGED <<session, logs>>]_vars

C3_Witness ==
  /\ wrong_run = 4
  /\ locked_out
  /\ \E r \in Requests:
       /\ Done(r, "unlock")
       /\ resp[r] = Raise("NotConnected")

\* C4: unlock on an unlocked session returns {unlocked, already_unlocked} at
\* once, whatever the PIN, and changes no session field, pin_attempts,
\* pending transaction or log entry.
C4_UnlockWhenUnlockedIsNoOp ==
  [][\A r \in Requests:
       state.is_unlocked /\ Calls(r, "unlock") =>
         /\ pc'[r] = "done"
         /\ resp'[r] = [unlocked |-> TRUE, already_unlocked |-> TRUE]
         /\ UNCHANGED <<session, logs>>]_vars

C4_Witness ==
  \E r \in Requests:
    /\ Done(r, "unlock")
    /\ frame[r].pin # default_pin
    /\ resp[r] = [unlocked |-> TRUE, already_unlocked |-> TRUE]
    /\ state.is_unlocked
    /\ state.awaiting_confirmation

\* C8: a confirmTransaction(true) that succeeds returns a signature, a
\* transaction hash and the screen value signed.
C8_ConfirmReturnsSignedScreen ==
  \A r \in Requests:
    Done(r, "confirm") /\ frame[r].confirmed /\ ~Raised(resp[r]) =>
      /\ resp[r].signature_result.signature # None
      /\ resp[r].signature_result.transaction_hash # None
      /\ resp[r].screen = "signed"

(***************************************************************************)
(* Claims about overlapping requests                                       *)
(***************************************************************************)
\* request r is suspended in a simulated delay
Suspended(r) ==
  pc[r] \in {"connect_sleep", "unlock_sleep", "sign_sleep", "revert_sleep"}

\* C9: while a request is suspended in the simulated delay of connect, unlock
\* or confirmTransaction, no step of another request changes the session.
C9_SessionLockedWhileSuspended ==
  [][\A r \in Requests:
       Suspended(r) /\ pc'[r] = pc[r] => UNCHANGED session]_vars

\* C10: status() never reports the signed screen together with
\* awaiting_confirmation and a pending transaction (the state in the middle of
\* confirmTransaction).
C10_StatusNeverMidConfirm ==
  \A r \in Requests:
    Done(r, "status") =>
      ~ /\ resp[r].device_state.screen = "signed"
        /\ resp[r].device_state.awaiting_confirmation
        /\ resp[r].pending_transaction # None

\* C11: in every reachable state, also when requests overlap at the simulated
\* delays, awaiting_confirmation implies a pending transaction, a pending
\* transaction implies unlocked, and unlocked implies connected.
C11_ChainHoldsWhenRequestsOverlap ==
  /\ state.awaiting_confirmation => pending_transaction # None
  /\ pending_transaction # None => state.is_unlocked
  /\ state.is_unlocked => state.is_connected

\* C12: in every reachable state, also when unlock requests overlap,
\* pin_attempts is within 0..3, the remaining attempts status() reports are
\* not negative, and pin_attempts = 3 only on a disconnected session.
C12_PinAttemptsWithinBounds ==
  /\ pin_attempts \in 0..max_pin_attempts
  /\ status(state, pending_transaction, pin_attempts).pin_attempts_remaining >= 0
  /\ pin_attempts = max_pin_attempts => ~state.is_connected

\* the screen the transition table gives for the flags of st
screen_of_flags(st) ==
  IF ~st.is_connected \/ ~st.is_unlocked THEN "home"
  ELSE IF st.awaiting_confirmation THEN "confirm"
  ELSE "wallet"

\* C13: whenever no operation is in progress, the screen is the one the
\* transition table gives for the flags, and it is never the error screen.
C13_ScreenIsFunctionOfFlags ==
  Settled =>
    /\ state.screen = screen_of_flags(state)
    /\ state.screen # "error"

\* C14: a connect on a connected session raises AlreadyConnected, and of two
\* connect requests that overlap at most one succeeds.
C14_OneOverlappingConnectSucceeds ==
  /\ [][\A r \in Requests:
          state.is_connected /\ Calls(r, "connect") =>
            /\ pc'[r] = "done"
            /\ resp'[r] = Raise("AlreadyConnected")]_vars
  /\ [](\A r1, r2 \in Requests:
          r1 # r2 /\ Done(r1, "connect") /\ Done(r2, "connect") =>
            Raised(resp[r1]) \/ Raised(resp[r2]))


(***************************************************************************)
(* Claims about the contract of single operations, checked while requests  *)
(* overlap                                                                 *)
(***************************************************************************)
\* request r completes its call in this step
Completes(r, op) == pc[r] # "done" /\ pc'[r] = "done" /\ frame'[r].op = op

\* C15: signTransaction raises NotConnected whenever the session is not
\* connected, NotUnlocked when it is connected and not unlocked, AlreadyPending
\* when it is connected, unlocked and awaiting a confirmation; a rejected call
\* changes neither the pending transaction nor anything else of the session
\* or the log.
C15_SignChecksInOrder ==
  [][\A r \in Requests:
       Calls(r, "sign") =>
         /\ pc'[r] = "done"
         /\ ~state.is_connected => resp'[r] = Raise("NotConnected")
         /\ state.is_connected /\ ~state.is_unlocked
              => resp'[r] = Raise("NotUnlocked")
         /\ state.is_connected /\ state.is_unlocked
              /\ state.awaiting_confirmation
              => resp'[r] = Raise("AlreadyPending")
         /\ Raised(resp'[r]) => UNCHANGED <<session, logs>>]_vars

C15_Witness ==
  \E r \in Requests:
    /\ Done(r, "sign")
    /\ resp[r] = Raise("AlreadyPending")
    /\ pending_transaction # None
    /\ pending_transaction # frame[r].transaction

\* C16: confirmTransaction raises NoPendingTransaction when the session awaits
\* no confirmation; a confirmTransaction that returns, confirmed or not,
\* leaves no pending transaction and awaiting_confirmation false, so that a
\* signTransaction is not rejected with AlreadyPending and another
\* confirmTransaction is rejected.
C16_ConfirmClearsPending ==
  [][\A r \in Requests:
       /\ Calls(r, "confirm") /\ ~state.awaiting_confirmation =>
            /\ pc'[r] = "done"
            /\ resp'[r] = Raise("NoPendingTransaction")
       /\ Completes(r, "confirm") /\ ~Raised(resp'[r]) =>
            /\ pending_transaction' = None
            /\ ~state'.awaiting_confirmation
            /\ sign_precheck(state') # "AlreadyPending"]_vars

C16_Witness ==
  \E r1, r2 \in Requests:
    /\ r1 # r2
    /\ Done(r1, "confirm")
    /\ frame[r1].confirmed
    /\ ~Raised(resp[r1])
    /\ Done(r2, "sign")
    /\ ~Raised(resp[r2])
    /\ pending_transaction = frame[r2].transaction

\* C17: confirmTransaction(true) returns before the screen goes back from
\* signed to wallet: when its response is returned the screen is still signed
\* and awaiting_confirmation is already false.
C17_ConfirmReturnsBeforeRevert ==
  \A r \in Requests:
    Done(r, "confirm") /\ frame[r].confirmed /\ ~Raised(resp[r]) =>
      /\ state.screen = "signed"
      /\ ~state.awaiting_confirmation

\* the rejections that must leave the session as it was
Rejections ==
  { Raise(kind) : kind \in {"AlreadyConnected", "NotConnected", "NotUnlocked",
                            "AlreadyPending", "NoPendingTransaction",
                            "NotReady"} }

\* C18: a call that is rejected with AlreadyConnected, NotConnected,
\* NotUnlocked, AlreadyPending, NoPendingTransaction or NotReady changes no
\* session field, pin_attempts, pending transaction or log entry.
C18_RejectedCallChangesNothing ==
  [][\A r \in Requests:
       pc[r] # "done" /\ pc'[r] = "done" /\ resp'[r] \in Rejections =>
         UNCHANGED <<session, logs>>]_vars

C18_Witness ==
  \E r \in Requests:
    /\ Done(r, "connect")
    /\ resp[r] = Raise("AlreadyConnected")
    /\ pin_attempts = 2
    /\ Len(logs) = 3


C20_RecentReturnsLastEntries ==
  [][\A r \in Requests:
       Calls(r, "get_logs") =>
         /\ pc'[r] = "done"
         /\ resp'[r].logs = IF frame'[r].limit > 0
                            THEN Last(logs, frame'[r].limit)
                            ELSE logs
         /\ UNCHANGED <<session, logs>>]_vars

C20_Witness ==
  \E r \in Requests:
    /\ Done(r, "get_logs")
    /\ frame[r].limit = 50
    /\ Len(logs) = LogCapacity
    /\ Len(resp[r].logs) = 50
    /\ resp[r].logs[1] = logs[51]
    /\ resp[r].logs[50] = logs[100]


(***************************************************************************)
(* Claims about the frame of single operations                             *)
(***************************************************************************)
\* C21: after clear_logs the log holds exactly one entry, the info entry
\* "Activity logs cleared", whatever it held before; the call changes no
\* session field, pin_attempts or pending transaction.
C21_ClearLeavesOneEntry ==
  [][\A r \in Requests:
       Calls(r, "clear_logs") =>
         /\ pc'[r] = "done"
         /\ Len(logs') = 1
         /\ logs'[1].level = "info"
         /\ logs'[1].message = [text |-> "Activity logs cleared"]
         /\ logs'[1].id = next_id
         /\ UNCHANGED session]_vars

C21_Witness ==
  \E r \in Requests:
    /\ Done(r, "clear_logs")
    /\ Len(logs) = 1
    /\ logs[1].id >= 4
    /\ state.awaiting_confirmation
    /\ pin_attempts = 0

\* C25: generate_address raises NotReady unless the session is connected and
\* unlocked; when it succeeds it appends exactly one info entry to the log and
\* changes no field of the session (address, balance, screen and
\* awaiting_confirmation among them), pending transaction or pin_attempts.
C25_GenerateAddressFrame ==
  [][\A r \in Requests:
       Calls(r, "generate_address") =>
         /\ pc'[r] = "done"
         /\ Raised(resp'[r]) <=> ~(state.is_connected /\ state.is_unlocked)
         /\ Raised(resp'[r]) => resp'[r] = Raise("NotReady")
         /\ ~Raised(resp'[r]) =>
              /\ Len(history') = Len(history) + 1
              /\ SubSeq(history', 1, Len(history)) = history
              /\ history'[Len(history')].level = "info"
              /\ logs'[Len(logs')] = history'[Len(history')]
         /\ UNCHANGED session]_vars

C25_Witness ==
  \E r \in Requests:
    /\ Done(r, "generate_address")
    /\ ~Raised(resp[r])
    /\ state.awaiting_confirmation
    /\ state.address = mock_addresses("trezor")
    /\ resp[r].derivation_path \in DerivationPaths

\* C26: get_status changes no session field, pin_attempts, pending transaction
\* or log entry, and reports the session, the pending transaction (None when
\* there is none) and max_pin_attempts - pin_attempts of the current state.
C26_StatusIsPureRead ==
  [][\A r \in Requests:
       Calls(r, "status") =>
         /\ pc'[r] = "done"
         /\ resp'[r].device_state = state
         /\ resp'[r].pending_transaction = pending_transaction
         /\ resp'[r].pin_attempts_remaining = max_pin_attempts - pin_attempts
         /\ UNCHANGED <<session, logs>>]_vars

C26_Witness ==
  \E r \in Requests:
    /\ Done(r, "status")
    /\ resp[r].pending_transaction \in Transactions
    /\ resp[r].pin_attempts_remaining = 3
    /\ resp[r].device_state.screen = "confirm"


(***************************************************************************)
(* Claims about connect and unlock in serialized runs                      *)
(***************************************************************************)
\* C27: a connect that succeeds leaves the session connected with the
\* caller's device_info, the home screen and pin_attempts 0, and appends
\* exactly one success entry to the log; after a lockout it leaves the session
\* connected, not unlocked, with all 3 PIN attempts remaining.
C27_ConnectResetsAttempts ==
  [][\A r \in Requests:
       Completes(r, "connect") /\ ~Raised(resp'[r]) =>
         /\ state'.is_connected
         /\ state'.device_info = frame[r].device_info
         /\ state'.screen = "home"
         /\ pin_attempts' = 0
         /\ Len(history') = Len(history) + 1
         /\ SubSeq(history', 1, Len(history)) = history
         /\ history'[Len(history')].level = "success"
         /\ locked_out =>
              /\ ~state'.is_unlocked
              /\ status(state', pending_transaction', pin_attempts')
                   .pin_attempts_remaining = 3]_vars

C27_Witness ==
  \E r \in Requests:
    /\ Done(r, "connect")
    /\ ~Raised(resp[r])
    /\ Len(history) = 6
    /\ history[5].message
         = [text |-> "Device locked due to too many invalid PIN attempts"]
    /\ pin_attempts = 0
    /\ state.is_connected

\* C28: on a connected, locked session an unlock with a wrong PIN adds exactly
\* one to pin_attempts and leaves the session locked; while attempts remain it
\* returns attempts_remaining = 3 - pin_attempts and leaves the session
\* connected; an unlock with the right PIN unlocks the session, shows the
\* wallet screen and sets pin_attempts to 0.
C28_UnlockCountsWrongPins ==
  [][\A r \in Requests:
       pc[r] = "unlock_sleep" /\ Completes(r, "unlock") =>
         IF frame[r].pin # default_pin
         THEN /\ pin_attempts' = pin_attempts + 1
              /\ ~state'.is_unlocked
              /\ pin_attempts' < max_pin_attempts =>
                   /\ resp'[r].unlocked = FALSE
                   /\ resp'[r].attempts_remaining = 3 - pin_attempts'
                   /\ state'.is_connected
              /\ pin_attempts' >= max_pin_attempts =>
                   resp'[r] = Raise("DeviceLocked")
         ELSE /\ state'.is_unlocked
              /\ state'.screen = "wallet"
              /\ pin_attempts' = 0
              /\ resp'[r].unlocked = TRUE]_vars

C28_Witness ==
  \E r \in Requests:
    /\ Done(r, "unlock")
    /\ frame[r].pin = default_pin
    /\ state.is_unlocked
    /\ pin_attempts = 0
    /\ Len(history) = 4
    /\ history[2].context = [attempts_remaining |-> 2]
    /\ history[3].context = [attempts_remaining |-> 1]


(***************************************************************************)
(* Claims about the real-time channels                                     *)
(***************************************************************************)
\* broadcast passes started in a behaviour of the interleaved hub
MaxPasses == 1

\* the hub on the asyncio event loop: channels are subscribed and unsubscribed
\* while a broadcast pass is suspended in a send
NextHubAsync ==
  \/ \E ws \in WebSockets: ws_connect(ws)
  \/ \E ws \in WebSockets: ws_welcome(ws)
  \/ \E ws \in WebSockets: ws_disconnected(ws)
  \/ \E ws \in WebSockets: peer_close(ws)
  \/ \E type \in EventTypes: next_event < MaxPasses /\ broadcast("r1", type)
  \/ broadcast_send("r1")
  \/ Return("r1")

SpecHubAsync == Init /\ [][NextHubAsync]_vars

(***************************************************************************)
(* main.py: the request handlers                                           *)
(***************************************************************************)
\* simulator calls made and events broadcast in a behaviour of the handlers
MaxAppAppends == 4
MaxAppEvents == 4

\* the channels opened while the handlers run
AppSockets == {"w1"}

\* the value of pin_data.get("pin"): a PIN, or nothing
PinData == Pins \cup {""}

\* the operations whose handler broadcasts after the simulator's call
Broadcasting == {"connect", "disconnect", "unlock", "sign", "confirm"}

\* mutant: the confirmation event does not look at the decision
handler_message_confirmed(f, x) ==
  CASE f.op = "connect" ->
         [type |-> "device_connected", device |-> f.device_info,
          timestamp |-> next_event]
    [] f.op = "disconnect" ->
         [type |-> "device_disconnected", timestamp |-> next_event]
    [] f.op = "unlock" ->
         [type |-> IF x.unlocked THEN "device_unlocked" ELSE "unlock_failed",
          timestamp |-> next_event]
    [] f.op = "sign" ->
         [type |-> "transaction_sign_request", transaction |-> f.transaction,
          timestamp |-> next_event]
    [] f.op = "confirm" ->
         [type |-> "transaction_confirmed",
          result |-> x, timestamp |-> next_event]

\* the event the handler of the call f broadcasts once the call returned x
handler_message(f, x) ==
  CASE f.op = "connect" ->
         [type |-> "device_connected", device |-> f.device_info,
          timestamp |-> next_event]
    [] f.op = "disconnect" ->
         [type |-> "device_disconnected", timestamp |-> next_event]
    [] f.op = "unlock" ->
         [type |-> IF x.unlocked THEN "device_unlocked" ELSE "unlock_failed",
          timestamp |-> next_event]
    [] f.op = "sign" ->
         [type |-> "transaction_sign_request", transaction |-> f.transaction,
          timestamp |-> next_event]
    [] f.op = "confirm" ->
         [type |-> IF f.confirmed THEN "transaction_confirmed"
                   ELSE "transaction_rejected",
          result |-> x, timestamp |-> next_event]

\* the handler raises HTTPException before it calls the simulator
handler_reject(r, f, kind) ==
  /\ Enter(r)
  /\ pc' = [pc EXCEPT ![r] = "responded"]
  /\ frame' = [frame EXCEPT ![r] = [op |-> "handler", call |-> f]]
  /\ resp' = [resp EXCEPT ![r] = Raise(kind)]
  /\ UNCHANGED <<simVars, obsVars, hubVars, fheVars>>

\* PUT /api/device/unlock up to the simulator's first await
api_unlock_device(r, pin) ==
  IF pin = ""
  THEN handler_reject(r, [op |-> "unlock", pin |-> pin], "PinRequired")
  ELSE unlock_device(r, pin)

\* POST /api/transaction/sign up to the end of the simulator's call
api_sign_transaction(r, transaction) ==
  LET f == [op |-> "sign", transaction |-> transaction]
  IN IF ~state.is_connected THEN handler_reject(r, f, "NotConnected")
     ELSE IF ~state.is_unlocked THEN handler_reject(r, f, "NotUnlocked")
     ELSE sign_transaction(r, transaction)

\* the simulator's call returned: the handler builds the event and enters
\* websocket_manager.broadcast, up to the await of the first send
handler_broadcast(r) ==
  /\ pc[r] = "done"
  /\ frame[r].op \in Broadcasting
  /\ ~Raised(resp[r])
  /\ LET message == handler_message(frame[r], resp[r])
         f == [op |-> "handler", call |-> frame[r], message |-> message,
               start |-> active_connections]
     IN IF active_connections = <<>>
        THEN /\ pc' = [pc EXCEPT ![r] = "responded"]
             /\ frame' = [frame EXCEPT ![r] = f]
        ELSE /\ pc' = [pc EXCEPT ![r] = "handler_send"]
             /\ frame' = [frame EXCEPT ![r] =
                            [op |-> "handler", call |-> frame[r],
                             message |-> message,
                             start |-> active_connections,
                             index |-> 1,
                             connection |-> active_connections[1],
                             disconnected |-> <<>>]]
  /\ next_event' = next_event + 1
  /\ UNCHANGED <<active_connections, connection_info, sock, wpc, inbox,
                 failed>>
  /\ UNCHANGED <<resp, obsVars, simVars, fheVars>>

\* the send to frame[r].connection completes or raises; after the last one
\* the pass drops the disconnected channels and the handler has its response
handler_send(r) ==
  /\ pc[r] = "handler_send"
  /\ LET f == frame[r]
         disconnected == IF sock[f.connection] = "open" THEN f.disconnected
                         ELSE Append(f.disconnected, f.connection)
         index == f.index + 1
     IN /\ send_text(f.connection, f.message)
        /\ IF index <= Len(active_connections)
           THEN /\ frame' = [frame EXCEPT ![r] =
                               [f EXCEPT !.index = index,
                                         !.connection = active_connections[index],
                                         !.disconnected = disconnected]]
                /\ UNCHANGED <<pc, active_connections, connection_info>>
           ELSE /\ active_connections' =
                     disconnect_all(active_connections, disconnected)
                /\ connection_info' =
                     connection_info \
                       (Elements(disconnected) \cap Elements(active_connections))
                /\ pc' = [pc EXCEPT ![r] = "responded"]
                /\ frame' = [frame EXCEPT ![r] =
                               [f EXCEPT !.disconnected = disconnected]]
  /\ UNCHANGED <<sock, wpc, next_event>>
  /\ UNCHANGED <<resp, obsVars, simVars, fheVars>>

\* the simulator's call raised: `except Exception` turns it into the 400
\* response, the broadcast is not reached
handler_raise(r) ==
  /\ pc[r] = "done"
  /\ frame[r].op \in Broadcasting
  /\ Raised(resp[r])
  /\ pc' = [pc EXCEPT ![r] = "responded"]
  /\ frame' = [frame EXCEPT ![r] = [op |-> "handler", call |-> frame[r]]]
  /\ UNCHANGED <<resp, obsVars, simVars, hubVars, fheVars>>

\* the response of the handler has been handed to the client
handler_return(r) ==
  /\ pc[r] = "responded"
  /\ pc' = [pc EXCEPT ![r] = "idle"]
  /\ frame' = [frame EXCEPT ![r] = NoFrame]
  /\ resp' = [resp EXCEPT ![r] = None]
  /\ UNCHANGED <<simVars, obsVars, hubVars, fheVars>>

\* a request is handled only when none is in flight
AppBudget ==
  Quiet /\ next_id < MaxAppAppends /\ next_event < MaxAppEvents

\* the handlers of main.py with serialized callers, over the simulator and
\* the hub
NextApp ==
  \/ \E device_info \in DeviceInfos:
       AppBudget /\ connect_device("r1", device_info)
  \/ AppBudget /\ disconnect_device("r1")
  \/ \E pin \in PinData: AppBudget /\ api_unlock_device("r1", pin)
  \/ \E transaction \in Transactions:
       AppBudget /\ api_sign_transaction("r1", transaction)
  \/ \E confirmed \in BOOLEAN: AppBudget /\ confirm_transaction("r1", confirmed)
  \/ connect_device_resume("r1")
  \/ unlock_device_resume("r1")
  \/ confirm_transaction_sign("r1")
  \/ confirm_transaction_revert("r1")
  \/ handler_broadcast("r1")
  \/ handler_send("r1")
  \/ handler_raise("r1")
  \/ handler_return("r1")
  \/ \E ws \in AppSockets: Quiet /\ ws_connect(ws)
  \/ \E ws \in AppSockets: Quiet /\ ws_welcome(ws)
  \/ \E ws \in AppSockets: Quiet /\ peer_close(ws)
  \/ \E ws \in AppSockets: Quiet /\ ws_disconnected(ws)

SpecApp == Init /\ [][NextApp]_vars

\* C23: once the handler of a channel has ended, for whatever reason, the
\* channel is not in the subscriber set.
C23_EndedChannelIsUnsubscribed ==
  \A ws \in WebSockets:
    wpc[ws] = "ended" => ws \notin Elements(active_connections)


\* C24: when a broadcast pass ends, every channel that was subscribed when it
\* started and is still subscribed has received the message exactly once,
\* also when channels were subscribed or unsubscribed during the pass.
C24_NoSubscriberSkipped ==
  \A r \in Requests:
    Done(r, "broadcast") =>
      \A w \in Elements(frame[r].start) \cap Elements(active_connections):
        Count(inbox[w], frame[r].message) = 1


\* C22: every unlock request with a PIN that finds the session connected is
\* answered after exactly one broadcast, device_unlocked when the session is
\* unlocked as a result and unlock_failed when the PIN was wrong, the wrong
\* PIN that exhausts the attempts and locks the device included.
C22_UnlockBroadcastsOnce ==
  \A r \in Requests:
    pc[r] = "responded" /\ frame[r].call.op = "unlock"
      /\ frame[r].call.pin # ""
      /\ resp[r] # Raise("NotConnected")
    => /\ "message" \in DOMAIN frame[r]
       /\ frame[r].message.type =
            IF state.is_unlocked THEN "device_unlocked" ELSE "unlock_failed"


\* C29: once confirmTransaction(true) has signed, and no other operation is
\* called in between, the screen eventually is wallet; the screen leaves
\* signed only by the one step that ends this confirmation, which puts it on
\* wallet, and it leaves wallet again only when an operation is called.
C29_SignedRevertsToWalletOnce ==
  /\ \A r \in Requests:
       (pc[r] = "revert_sleep" /\ state.screen = "signed")
         ~> (Done(r, "confirm") /\ ~Raised(resp[r]) /\ state.screen = "wallet")
  /\ [][/\ state.screen = "signed" /\ state'.screen # "signed" =>
             /\ state'.screen = "wallet"
             /\ \E r \in Requests:
                  /\ pc[r] = "revert_sleep"
                  /\ Done(r, "confirm")'
                  /\ \A q \in Requests \ {r}: pc'[q] = pc[q]
        /\ state.screen = "wallet" /\ state'.screen # "wallet" =>
             \E r \in Requests: pc[r] = "idle" /\ pc'[r] # "idle"]_vars

C29_Witness ==
  \E r \in Requests:
    /\ Done(r, "confirm")
    /\ frame[r].confirmed
    /\ ~Raised(resp[r])
    /\ resp[r].screen = "wallet"
    /\ state.screen = "wallet"
    /\ history[Len(history)].message.text =
         "Transaction signed successfully: {tx_hash[:16]}..."


\* C30: a revert that runs after a disconnect or another operation has moved
\* the screen away from signed still sets the screen to wallet and changes
\* nothing else of the session: no flag, no other field, not the pending
\* transaction.
C30_StaleRevertWritesOnlyScreen ==
  [][\A r \in Requests:
       pc[r] = "revert_sleep" /\ pc'[r] = "done" /\ state.screen # "signed" =>
         /\ state' = [state EXCEPT !.screen = "wallet"]
         /\ UNCHANGED <<pending_transaction, pin_attempts>>]_vars


\* the event type that matches the call f
matching_type(f) ==
  CASE f.op = "connect" -> "device_connected"
    [] f.op = "disconnect" -> "device_disconnected"
    [] f.op = "sign" -> "transaction_sign_request"
    [] f.op = "confirm" ->
         IF f.confirmed THEN "transaction_confirmed" ELSE "transaction_rejected"

\* the session change of the call f is in the session
change_applied(f) ==
  CASE f.op = "connect" ->
         state.is_connected /\ state.device_info = f.device_info
    [] f.op = "disconnect" -> ~state.is_connected
    [] f.op = "sign" ->
         state.awaiting_confirmation /\ pending_transaction = f.transaction
    [] f.op = "confirm" ->
         ~state.awaiting_confirmation /\ pending_transaction = None

\* C31: a connect, disconnect, sign or confirm request that succeeds is
\* answered after one broadcast of the matching type, started when the session
\* change is already applied and delivered once to every subscriber; a request
\* that is rejected broadcasts nothing.
C31_OneBroadcastPerSuccess ==
  /\ [](\A r \in Requests:
          pc[r] = "responded"
            /\ frame[r].call.op \in {"connect", "disconnect", "sign", "confirm"}
          => IF Raised(resp[r])
             THEN "message" \notin DOMAIN frame[r]
             ELSE /\ "message" \in DOMAIN frame[r]
                  /\ frame[r].message.type = matching_type(frame[r].call)
                  /\ \A w \in Elements(active_connections):
                       Count(inbox[w], frame[r].message) = 1)
  /\ [][\A r \in Requests:
          pc[r] = "done"
            /\ frame[r].op \in {"connect", "disconnect", "sign", "confirm"}
          => IF Raised(resp[r])
             THEN UNCHANGED <<inbox, failed, next_event>>
             ELSE /\ change_applied(frame[r])
                  /\ next_event' = next_event + 1
                  /\ UNCHANGED session]_vars

C31_Witness ==
  \E r \in Requests:
    /\ pc[r] = "responded"
    /\ frame[r].call.op = "confirm"
    /\ frame[r].call.confirmed
    /\ ~Raised(resp[r])
    /\ frame[r].message.type = "transaction_confirmed"
    /\ frame[r].message.result = resp[r]
    /\ "w1" \in Elements(active_connections)
    /\ Count(inbox["w1"], frame[r].message) = 1


\* the welcome notification of the channel ws
welcome(ws) == [type |-> "connection_established", client_id |-> ws]

\* C32: subscribing a channel appends it to the subscribers; its welcome is
\* pushed to this channel and to no other; when the push fails the channel is
\* no longer subscribed; unsubscribing a channel that is not subscribed
\* changes nothing.
C32_SubscribeWelcomesOne ==
  [][\A ws \in WebSockets:
       /\ wpc[ws] = "new" /\ wpc'[ws] = "welcome" =>
            /\ active_connections' = Append(active_connections, ws)
            /\ connection_info' = connection_info \cup {ws}
            /\ UNCHANGED <<inbox, failed>>
       /\ wpc[ws] = "welcome" /\ wpc'[ws] = "receive" =>
            /\ \A w \in WebSockets \ {ws}:
                 inbox'[w] = inbox[w] /\ failed'[w] = failed[w]
            /\ IF sock[ws] = "open"
               THEN /\ inbox'[ws] = Append(inbox[ws], welcome(ws))
                    /\ UNCHANGED <<active_connections, connection_info>>
               ELSE /\ inbox'[ws] = inbox[ws]
                    /\ ws \notin Elements(active_connections')
                    /\ ws \notin connection_info'
                    /\ \A w \in WebSockets \ {ws}:
                         Count(active_connections', w)
                           = Count(active_connections, w)
       /\ wpc[ws] = "receive" /\ wpc'[ws] = "ended" /\ sock[ws] = "closed"
            /\ ws \notin Elements(active_connections) =>
            UNCHANGED <<active_connections, connection_info, inbox, failed>>
    ]_vars

C32_Witness ==
  \E ws \in WebSockets, w \in WebSockets:
    /\ wpc[ws] = "receive"
    /\ welcome(ws) \in failed[ws]
    /\ ws \notin Elements(active_connections)
    /\ w \in Elements(active_connections)
    /\ inbox[w] = <<welcome(w)>>
    /\ \E u \in WebSockets:
         /\ wpc[u] = "ended"
         /\ welcome(u) \in failed[u]
         /\ u \notin Elements(active_connections)


\* C33: a computation on a non-empty operand list succeeds, also on operands
\* that cannot compute, and its result has the noise level
\* min(max of the operands' noise levels + 1, 10), can compute exactly when
\* that level is below 8, and has the data type of the first operand.
C33_ResultNoiseAndType ==
  fhe_request # None /\ fhe_request.operands # <<>> =>
    LET operands == fhe_request.operands
        levels == {operands[i].noise_level : i \in 1..Len(operands)}
        top == CHOOSE n \in levels: \A m \in levels: m <= n
        result == fhe_result.result
    IN /\ fhe_result.success
       /\ fhe_result.error_message = None
       /\ result.noise_level = (IF top + 1 <= 10 THEN top + 1 ELSE 10)
       /\ result.can_compute = (result.noise_level < 8)
       /\ result.data_type = operands[1].data_type

C33_Witness ==
  /\ fhe_request # None
  /\ Len(fhe_request.operands) = 2
  /\ ~fhe_request.operands[1].can_compute
  /\ fhe_request.operands[1].data_type # fhe_request.operands[2].data_type
  /\ fhe_request.operands[1].noise_level < fhe_request.operands[2].noise_level
  /\ fhe_result.result.can_compute
  /\ fhe_result.result.noise_level = fhe_request.operands[2].noise_level + 1


\* C34: from the unlock that failed with DeviceLocked until a connect has
\* succeeded again, the session is not unlocked, also when a correct-PIN
\* unlock was suspended in its verification delay at the lockout.
C34_LockedOutStaysLocked ==
  locked_out => ~state.is_unlocked


\* the entries written to the activity log since it was last cleared that
\* have the text t
Written(t) == {i \in 1..Len(history) : history[i].message.text = t}

\* C35: no more signatures are made than signing requests were accepted, also
\* when two confirmations of the same pending transaction overlap (counted in
\* the entries written, as long as the log was never cleared).
C35_OneSignaturePerRequest ==
  Written("Activity logs cleared") = {} =>
  Cardinality(Written("Transaction signed successfully: {tx_hash[:16]}..."))
    <= Cardinality(Written("Transaction signing requested: {amount} OCTRA to {to_address[:10]}..."))


\* C36: a confirmation signs the transaction that was pending when it was
\* called, and clears no other: not a newer transaction that became pending
\* during its signing delay.
C36_SignsTheAcceptedTransaction ==
  [][\A r \in Requests:
       /\ pc[r] = "sign_sleep" /\ pc'[r] = "revert_sleep" =>
            frame'[r].result.signature =
              sha256(<<frame[r].accepted.to_address, frame[r].accepted.amount,
                       Timestamp>>)
       /\ pc[r] = "revert_sleep" /\ pc'[r] = "done" =>
            pending_transaction \in {frame[r].accepted, None}]_vars


\* the error kinds of the session operations
ErrorKinds ==
  {"AlreadyConnected", "NotConnected", "NotUnlocked", "DeviceLocked",
   "AlreadyPending", "NoPendingTransaction", "NotReady", "InvalidInput"}

\* C37: every session operation that fails, fails with one of the error
\* kinds, also a confirmation whose session was reset by a disconnect while
\* it was suspended in its signing delay.
C37_FailuresAreErrorKinds ==
  \A r \in Requests:
    pc[r] = "done" /\ Raised(resp[r]) => resp[r].exception \in ErrorKinds


====
